---- MODULE Spec2Model ----
(***************************************************************************)
(* The run manager of src/utils/runmanager.py: RemoteProcessWrapper (one   *)
(* child process and its control socket) and RunManager (the registry of   *)
(* running processes, the handshake, the console widgets, the two timers). *)
(*                                                                         *)
(* Everything runs on the Qt control thread. A handler is one action; the  *)
(* calls it makes (signal emissions are direct calls of the connected      *)
(* slots) are operators from a state record to a state record.  The only   *)
(* place where a handler lets other handlers run before it returns is      *)
(* QApplication.processEvents() in __parseClientLine: a read pass that     *)
(* reaches it stays on the stack `frames` and is resumed later.            *)
(***************************************************************************)
EXTENDS Integers, Sequences, FiniteSets, TLC

\* ---------------------------------------------------------------- constants
KILLED == -1000000
DISCONNECTED == -2000000
HANDSHAKE_TIMEOUT == 15
STATE_PROLOGUE == 0
STATE_RUNNING == 1
\* Python's None (an absent socket, widget, index or state)
None == -1

RUN == "RUN"
NO_REUSE == "NO_REUSE"
REUSE == "REUSE"
CLEAR_AND_REUSE == "CLEAR_AND_REUSE"

METHOD_PROC_ID_INFO == "proc-id-info"
METHOD_PROLOGUE_CONTINUE == "prologue-continue"
METHOD_EPILOGUE_EXIT_CODE == "epilogue-exit-code"
METHOD_EPILOGUE_EXIT == "epilogue-exit"
METHOD_STDOUT == "stdout"
METHOD_STDERR == "stderr"
METHOD_STDIN == "stdin"

\* ------------------------------------------------------------------- bounds
\* launches (run() calls) in one behaviour
MaxLaunch == 2
\* inbound connections in one behaviour
MaxConn == 2
\* lines a child sends on one connection after its first line
MaxLines == 2
\* the clock stops here
MaxTime == 17
\* nested read passes (a pass re-entered through processEvents)
MaxDepth == 1
\* stop() calls a holder of a wrapper makes on it
MaxStops == 2
\* launches in the behaviours that exercise the console reuse
MaxConsoleLaunch == 3
\* inbound connections in the behaviours whose peers send lines of any kind
MaxLineConn == 1
\* input lines sent to one child
MaxInputs == 1
\* nested read passes in the behaviours that exercise the re-entry
MaxReentry == 2

VARIABLES
    processes,          \* RunManager.__processes: list of RemoteProcess
    prologueProcesses,  \* RunManager.__prologueProcesses: list of (procuuid, time)
    waitTimer,          \* RunManager.__waitTimer.isActive()
    prologueTimer,      \* RunManager.__prologueTimer.isActive()
    wrappers,           \* every RemoteProcessWrapper created, by procuuid
    os,                 \* the OS process of each wrapper: "none", "alive",
                        \* "dead", or "unkillable" (alive, and it stays so)
    sockets,            \* every accepted connection, by id
    consoles,           \* the main window's IO consoles
    ioconsolereuse,     \* Settings()['ioconsolereuse']
    now,                \* time.time(), in seconds
    frames,             \* read passes suspended in processEvents, innermost last
    log,                \* per wrapper: what it sent and the signals it emitted
    returned,           \* redirected procuuids tracked at a killAll() that returned
    stopped,            \* per wrapper: the stop() calls made on it
    blocked             \* the control thread is in a Popen.wait() that does
                        \* not return

vars == <<processes, prologueProcesses, waitTimer, prologueTimer, wrappers, os,
          sockets, consoles, ioconsolereuse, now, frames, log, returned, stopped,
          blocked>>

\* The state handed through a handler's calls
St ==
    [processes |-> processes, prologueProcesses |-> prologueProcesses,
     waitTimer |-> waitTimer, prologueTimer |-> prologueTimer,
     wrappers |-> wrappers, os |-> os, sockets |-> sockets,
     consoles |-> consoles, frames |-> frames, log |-> log,
     returned |-> returned, stopped |-> stopped, blocked |-> blocked]

Set(s) ==
    /\ processes' = s.processes
    /\ prologueProcesses' = s.prologueProcesses
    /\ waitTimer' = s.waitTimer
    /\ prologueTimer' = s.prologueTimer
    /\ wrappers' = s.wrappers
    /\ os' = s.os
    /\ sockets' = s.sockets
    /\ consoles' = s.consoles
    /\ frames' = s.frames
    /\ log' = s.log
    /\ returned' = s.returned
    /\ stopped' = s.stopped
    /\ blocked' = s.blocked

\* del seq[i] (an IndexError leaves the list as it is)
RemoveAt(seq, i) ==
    IF i >= 1 /\ i <= Len(seq)
    THEN SubSeq(seq, 1, i - 1) \o SubSeq(seq, i + 1, Len(seq))
    ELSE seq

\* ------------------------------------------------------------ wire protocol
\* A line on the wire: wf says whether it is well-formed JSON with the
\* method, procuuid and params fields; val is the one payload of params
\* (the text, the exit code, the prompt).
Line(method, procuuid, val) ==
    [wf |-> TRUE, method |-> method, procuuid |-> procuuid, val |-> val]

Malformed == [wf |-> FALSE, method |-> "", procuuid |-> None, val |-> 0]

\* the val of a line whose params lack the field its method's handler reads
\* (params['text'], params['exitCode'], params['prompt'])
Absent == -2

\* parseJSONMessage: raises (ok = FALSE) on a line that is not well-formed
parseJSONMessage(line) ==
    [ok |-> line.wf, method |-> line.method, procuuid |-> line.procuuid,
     params |-> line.val]

\* what a wrapper did, in order: <<kind, value>> (a message sent on a socket,
\* a signal emitted, a run of the kill sequence)
logEvent(s, w, e) == [s EXCEPT !.log[w] = Append(@, e)]

\* sendJSONCommand: writes one line to the socket; nothing is written to a
\* socket that is gone or no longer connected
sendJSONCommand(s, w, k, method) ==
    IF k # None /\ s.sockets[k].open
    THEN logEvent(s, w, <<method, k>>)
    ELSE s

\* --------------------------------------------------------- RunManager basics
getProcessIndex(s, procuuid) ==
    IF \E i \in 1..Len(s.processes) : s.processes[i].procWrapper = procuuid
    THEN CHOOSE i \in 1..Len(s.processes) :
             /\ s.processes[i].procWrapper = procuuid
             /\ \A j \in 1..(i - 1) : s.processes[j].procWrapper # procuuid
    ELSE None

appendIDEMessage(s, widget, msg) ==
    [s EXCEPT !.consoles[widget].text = Append(@, msg)]

\* a bug: the slots stay connected to the socket
disconnectSocket_keep(s, w) == s

\* ------------------------------------------------------ RemoteProcessWrapper
disconnectSocket(s, w) ==
    LET k == s.wrappers[w].clientSocket IN
    IF k = None THEN s
    ELSE IF s.sockets[k].readyRead # w THEN s   \* disconnect() raised: pass
    ELSE [s EXCEPT !.sockets[k].readyRead = None,
                   !.sockets[k].disconnected =
                       IF @ = w THEN None ELSE @]

connectSocket(s, w) ==
    LET k == s.wrappers[w].clientSocket IN
    IF k = None THEN s
    ELSE [s EXCEPT !.sockets[k].readyRead = w,
                   !.sockets[k].disconnected = w]

RECURSIVE closeSocket(_, _), wait(_, _), w_kill(_, _), disconnected(_, _),
          onProcessFinished(_, _, _), emitFinished(_, _, _)

\* QAbstractSocket.close() on a connected socket emits its disconnected
\* signal before it returns, and drops what was buffered
closeSocket(s, w) ==
    LET k == s.wrappers[w].clientSocket IN
    IF k = None THEN s
    ELSE LET s1 == [s EXCEPT !.sockets[k].open = FALSE,
                             !.sockets[k].inbuf = <<>>]
             r == s.sockets[k].disconnected
             s2 == IF s.sockets[k].open /\ r # None
                   THEN disconnected(s1, r)
                   ELSE s1
         IN IF s2.blocked THEN s2
            ELSE [s2 EXCEPT !.wrappers[w].clientSocket = None]

\* Popen.wait() returns when the child has exited, and not before: on a
\* child that stays alive the call, and the thread with it, stays there
wait(s, w) ==
    IF s.wrappers[w].proc /\ s.os[w] = "unkillable"
    THEN [s EXCEPT !.blocked = TRUE]
    ELSE LET s1 == IF s.wrappers[w].proc
                   THEN [s EXCEPT !.os[w] = "dead"]
                   ELSE s
         IN closeSocket(s1, w)

\* __kill: Popen.kill(), then the /proc scan that kills the descendant
\* carrying this procuuid, then wait(); the log notes that it ran.  A kill
\* that fails raises, and the exception is passed over (170-172, 176-180)
w_kill(s, w) ==
    LET s0 == logEvent(s, w, <<"kill", 0>>)
        s1 == IF s0.wrappers[w].proc /\ s0.os[w] # "unkillable"
              THEN [s0 EXCEPT !.os[w] = "dead"]
              ELSE s0
        s2 == wait(s1, w)
    IN IF s2.blocked THEN s2
       ELSE [s2 EXCEPT !.wrappers[w].proc = FALSE]

\* sigFinished.emit (not reached by a caller whose last call did not return)
emitFinished(s, w, retCode) ==
    IF s.blocked THEN s
    ELSE onProcessFinished(logEvent(s, w, <<"finished", retCode>>),
                           w, retCode)

\* a bug: finished is emitted before the kill sequence has run
disconnected_emitFirst(s, w) == w_kill(emitFinished(s, w, DISCONNECTED), w)

disconnected(s, w) == emitFinished(w_kill(s, w), w, DISCONNECTED)

stop(s, w) ==
    LET s1 == [s EXCEPT !.stopped[w] = @ + 1] IN
    emitFinished(w_kill(disconnectSocket(s1, w), w), w, KILLED)

\* the message __onProcessFinished picks for the console
\* a bug: the messages of a kill and of a lost connection are exchanged
finishMessage_swapped(retCode) ==
    IF retCode = KILLED THEN <<"Connection lost", 0>>
    ELSE IF retCode = DISCONNECTED THEN <<"Script killed", 0>>
    ELSE <<"Script finished", retCode>>

finishMessage(retCode) ==
    IF retCode = KILLED THEN <<"Script killed", 0>>
    ELSE IF retCode = DISCONNECTED THEN <<"Connection lost", 0>>
    ELSE <<"Script finished", retCode>>

\* what __onProcessFinished does with the entry at index
finishEntry(s, index, retCode) ==
    LET item == s.processes[index]
        w == item.procWrapper
        sw == IF retCode \in {KILLED, DISCONNECTED} THEN s ELSE wait(s, w)
        s1 == IF s.wrappers[w].redirected /\ item.widget # None
              THEN IF sw.blocked THEN sw
                   ELSE appendIDEMessage(sw, item.widget,
                                         finishMessage(retCode))
              ELSE s
    IN IF s1.blocked THEN s1
       ELSE [s1 EXCEPT !.processes = RemoveAt(@, index)]

\* a bug: a finished event whose procuuid is not in the registry is taken
\* for the last entry's
onProcessFinished_blind(s, procuuid, retCode) ==
    LET index == getProcessIndex(s, procuuid) IN
    IF index # None THEN finishEntry(s, index, retCode)
    ELSE IF s.processes = <<>> THEN s
    ELSE finishEntry(s, Len(s.processes), retCode)

onProcessFinished(s, procuuid, retCode) ==
    LET index == getProcessIndex(s, procuuid) IN
    IF index = None THEN s
    ELSE finishEntry(s, index, retCode)

\* the slots run() connects to sigClientStdout, sigClientStderr, sigClientInput
emitClient(s, w, kind, val) ==
    LET s1 == logEvent(s, w, <<kind, val>>)
        widget == s.wrappers[w].widget
    IN IF widget = None THEN s1
       ELSE [s1 EXCEPT !.consoles[widget].text = Append(@, <<kind, val>>)]

sendStart(s, w) ==
    sendJSONCommand(s, w, s.wrappers[w].clientSocket, METHOD_PROLOGUE_CONTINUE)

\* a bug: the socket is disconnected but the 'exit' message is never sent
sendExit_silent(s, w) == disconnectSocket(s, w)

sendExit(s, w) ==
    LET s1 == disconnectSocket(s, w) IN
    sendJSONCommand(s1, w, s1.wrappers[w].clientSocket, METHOD_EPILOGUE_EXIT)

\* One run of the loop of __parseClientLine, up to the first processEvents()
\* (yield = TRUE), to the end of the loop (yield = FALSE), or to a KeyError
\* on a field params does not have (raised = TRUE): only TypeError and
\* ValueError are caught in the loop, so a KeyError leaves the call; a call
\* that stays in a slot of sigFinished does not go on either
RECURSIVE parseClientLine(_, _)
parseClientLine(s, w) ==
    LET k == s.wrappers[w].clientSocket IN
    IF k = None \/ s.sockets[k].inbuf = <<>>
    THEN [st |-> s, yield |-> FALSE, raised |-> FALSE]
    ELSE LET line == Head(s.sockets[k].inbuf)
             s1 == [s EXCEPT !.sockets[k].inbuf = Tail(@),
                             !.sockets[k].readLog = Append(@, line)]
             msg == parseJSONMessage(line)
             keyError == msg.params = Absent
         IN IF ~msg.ok THEN parseClientLine(s1, w)
            ELSE IF msg.method = METHOD_EPILOGUE_EXIT_CODE
            THEN IF keyError
                 THEN [st |-> sendExit(s1, w), yield |-> FALSE,
                       raised |-> TRUE]
                 ELSE LET e == emitFinished(sendExit(s1, w), w, msg.params)
                      IN [st |-> e, yield |-> ~e.blocked,
                          raised |-> e.blocked]
            ELSE IF msg.method = METHOD_STDOUT
            THEN IF keyError
                 THEN [st |-> s1, yield |-> FALSE, raised |-> TRUE]
                 ELSE [st |-> emitClient(s1, w, "stdout", msg.params),
                       yield |-> TRUE, raised |-> FALSE]
            ELSE IF msg.method = METHOD_STDERR
            THEN IF keyError
                 THEN [st |-> s1, yield |-> FALSE, raised |-> TRUE]
                 ELSE [st |-> emitClient(s1, w, "stderr", msg.params),
                       yield |-> TRUE, raised |-> FALSE]
            ELSE IF msg.method = METHOD_STDIN
            THEN IF keyError
                 THEN [st |-> s1, yield |-> FALSE, raised |-> TRUE]
                 ELSE [st |-> emitClient(s1, w, "input", msg.params),
                       yield |-> TRUE, raised |-> FALSE]
            ELSE parseClientLine(s1, w)

\* a call of __parseClientLine that is inside processEvents(); attach says
\* that setSocket made the call and still has the 'start' message to send,
\* sock is the socket whose readyRead made the call otherwise
readFrame(w, attach, k) ==
    [routine |-> "parseClientLine", w |-> w, attach |-> attach, sock |-> k,
     snap |-> {}]

\* a read pass called as the slot of socket k's readyRead: suspended in
\* processEvents or done
readPass(s, w, k) ==
    LET r == parseClientLine(s, w) IN
    IF r.yield
    THEN [r.st EXCEPT !.frames = Append(@, readFrame(w, FALSE, k))]
    ELSE r.st

\* setSocket: the read pass comes before the 'start' message; an exception
\* of the read pass leaves setSocket too
setSocket(s, w, clientSocket) ==
    LET s1 == [s EXCEPT !.wrappers[w].clientSocket = clientSocket,
                        !.wrappers[w].state = STATE_RUNNING]
        r == parseClientLine(connectSocket(s1, w), w)
    IN IF r.yield
       THEN [r.st EXCEPT !.frames = Append(@, readFrame(w, TRUE, None))]
       ELSE IF r.raised THEN r.st
       ELSE sendStart(r.st, w)

\* a bug: the input is sent under the procuuid of the registry's first entry
userInput_firstEntry(s, w, collectedString) ==
    LET k == s.wrappers[w].clientSocket IN
    IF k = None \/ ~s.sockets[k].open THEN s
    ELSE logEvent(s, w, <<METHOD_STDIN, k,
                          [procuuid |-> IF s.processes = <<>> THEN w
                                        ELSE s.processes[1].procWrapper,
                           input |-> collectedString]>>)

\* userInput: one 'stdin' line carrying the procuuid and {input: ...}, on
\* the socket the wrapper has; sendJSONCommand writes nothing to a socket
\* that is no longer connected
userInput(s, w, collectedString) ==
    LET k == s.wrappers[w].clientSocket IN
    IF k = None \/ ~s.sockets[k].open THEN s
    ELSE logEvent(s, w, <<METHOD_STDIN, k,
                          [procuuid |-> s.wrappers[w].procuuid,
                           input |-> collectedString]>>)

\* a bug: the exit of the child is never seen
waitDetached_never(s, w) == FALSE

\* a bug: every detached entry is taken for exited
waitDetached_always(s, w) == TRUE

\* waitDetached: Popen.poll() is not None once the child has exited; with
\* no Popen object (__proc is None) the call raises and True is returned
waitDetached(s, w) ==
    IF ~s.wrappers[w].proc THEN TRUE ELSE s.os[w] = "dead"

\* ---------------------------------------------------------------- RunManager
\* a bug: the rejected connection is left open
safeSocketClose_leak(s, k) == s

safeSocketClose(s, k) ==
    [s EXCEPT !.sockets[k].open = FALSE, !.sockets[k].inbuf = <<>>]

onProcessStarted(s, procuuid) ==
    LET index == getProcessIndex(s, procuuid) IN
    IF index = None THEN s
    ELSE IF s.processes[index].widget = None THEN s
    ELSE appendIDEMessage(s, s.processes[index].widget, <<"Started", 0>>)

\* k is the connection just accepted; its inbuf holds what the peer sent
\* within the 1000 ms of waitForReadyRead
waitForHandshake(s, k) ==
    IF s.sockets[k].inbuf = <<>> THEN s
    ELSE LET line == Head(s.sockets[k].inbuf)
             s1 == [s EXCEPT !.sockets[k].inbuf = Tail(@),
                             !.sockets[k].readLog = Append(@, line)]
             msg == parseJSONMessage(line)
         IN IF ~msg.ok THEN safeSocketClose(s1, k)
            ELSE IF msg.method # METHOD_PROC_ID_INFO
            THEN safeSocketClose(s1, k)
            ELSE LET procIndex == getProcessIndex(s1, msg.procuuid) IN
                 IF procIndex # None
                 THEN setSocket(onProcessStarted(s1, msg.procuuid),
                                s1.processes[procIndex].procWrapper, k)
                 ELSE s1

newConsole(procuuid, kind) ==
    [procuuid |-> procuuid, kind |-> kind, text |-> <<>>]

\* the first console of the kind whose procuuid is not in the registry
idleConsole(s, kind) ==
    LET idle == {i \in 1..Len(s.consoles) :
                    /\ s.consoles[i].kind = kind
                    /\ getProcessIndex(s, s.consoles[i].procuuid) = None}
    IN IF idle = {} THEN None
       ELSE CHOOSE i \in idle : \A j \in idle : i <= j

\* a bug: the NO_REUSE setting is not looked at
pickWidget_alwaysReuse(s, procuuid, kind) ==
    LET widget == idleConsole(s, kind) IN
    IF widget = None
    THEN [st |-> [s EXCEPT !.consoles =
                     Append(@, newConsole(procuuid, kind))],
          widget |-> Len(s.consoles) + 1]
    ELSE [st |-> s, widget |-> widget]

pickWidget(s, procuuid, kind) ==
    LET created == [st |-> [s EXCEPT !.consoles =
                                Append(@, newConsole(procuuid, kind))],
                    widget |-> Len(s.consoles) + 1]
        widget == idleConsole(s, kind)
    IN IF ioconsolereuse = NO_REUSE THEN created
       ELSE IF widget = None THEN created
       ELSE IF ioconsolereuse = CLEAR_AND_REUSE
       THEN [st |-> [s EXCEPT !.consoles[widget].text = <<>>],
             widget |-> widget]
       ELSE [st |-> s, widget |-> widget]

\* a bug: every wrapper gets the same procuuid
newWrapper_sameId(procuuid, redirected) ==
    [procuuid |-> 1, redirected |-> redirected, state |-> None,
     clientSocket |-> None, proc |-> FALSE, widget |-> None]

\* RemoteProcessWrapper(): uuid.uuid1() gives a procuuid not given before
\* (here: the number of the wrapper)
newWrapper(procuuid, redirected) ==
    [procuuid |-> procuuid, redirected |-> redirected, state |-> None,
     clientSocket |-> None, proc |-> FALSE, widget |-> None]

\* a bug: the detached-poll timer is armed by every launch that starts
run_armsWaitTimer(s, redirected, started) ==
    LET w == Len(s.wrappers) + 1
        s0 == [s EXCEPT !.wrappers = Append(@, newWrapper(w, redirected)),
                        !.os = Append(@, "none"),
                        !.log = Append(@, <<>>),
                        !.stopped = Append(@, 0)]
        s1 == IF redirected
              THEN LET a == [s0 EXCEPT
                                !.wrappers[w].state = STATE_PROLOGUE,
                                !.prologueProcesses = Append(@, <<w, now>>),
                                !.prologueTimer = TRUE]
                       p == pickWidget(a, w, RUN)
                       b == appendIDEMessage(p.st, p.widget, <<"Starting", 0>>)
                   IN [b EXCEPT !.wrappers[w].widget = p.widget]
              ELSE s0
        widget == s1.wrappers[w].widget
        s2 == [s1 EXCEPT !.processes =
                  Append(@, [procWrapper |-> w, widget |-> widget,
                             kind |-> RUN])]
    IN IF started
       THEN [s2 EXCEPT !.wrappers[w].proc = TRUE,
                       !.os[w] = "alive",
                       !.waitTimer = TRUE]
       ELSE LET s3 == IF redirected
                      THEN appendIDEMessage(s2, widget,
                                            <<"Failed to start", 0>>)
                      ELSE s2
            IN [s3 EXCEPT !.processes = RemoveAt(@, Len(@))]

\* run(): started says whether Popen succeeded
run(s, redirected, started) ==
    LET w == Len(s.wrappers) + 1
        s0 == [s EXCEPT !.wrappers = Append(@, newWrapper(w, redirected)),
                        !.os = Append(@, "none"),
                        !.log = Append(@, <<>>),
                        !.stopped = Append(@, 0)]
        s1 == IF redirected
              THEN LET a == [s0 EXCEPT
                                !.wrappers[w].state = STATE_PROLOGUE,
                                !.prologueProcesses = Append(@, <<w, now>>),
                                !.prologueTimer = TRUE]
                       p == pickWidget(a, w, RUN)
                       b == appendIDEMessage(p.st, p.widget, <<"Starting", 0>>)
                   IN [b EXCEPT !.wrappers[w].widget = p.widget]
              ELSE s0
        widget == s1.wrappers[w].widget
        s2 == [s1 EXCEPT !.processes =
                  Append(@, [procWrapper |-> w, widget |-> widget,
                             kind |-> RUN])]
    IN IF started
       THEN [s2 EXCEPT !.wrappers[w].proc = TRUE,
                       !.os[w] = "alive",
                       !.waitTimer = IF redirected THEN @ ELSE TRUE]
       ELSE LET s3 == IF redirected
                      THEN appendIDEMessage(s2, widget,
                                            <<"Failed to start", 0>>)
                      ELSE s2
            IN [s3 EXCEPT !.processes = RemoveAt(@, Len(@))]

getDetachedCount(s) ==
    Cardinality({i \in 1..Len(s.processes) :
                    s.wrappers[s.processes[i].procWrapper].redirected})

\* a bug: the loop steps over the entry below one it has stopped
RECURSIVE killAllLoop_skip(_, _)
killAllLoop_skip(s, index) ==
    IF index < 1 \/ s.blocked THEN s
    ELSE LET w == s.processes[index].procWrapper IN
         IF s.wrappers[w].redirected
         THEN killAllLoop_skip(stop(s, w), index - 2)
         ELSE killAllLoop_skip(s, index - 1)

\* a bug: the loop stops every entry, redirected or not
RECURSIVE killAllLoop_all(_, _)
killAllLoop_all(s, index) ==
    IF index < 1 \/ s.blocked THEN s
    ELSE killAllLoop_all(stop(s, s.processes[index].procWrapper), index - 1)

RECURSIVE killAllLoop(_, _)
killAllLoop(s, index) ==
    IF index < 1 \/ s.blocked THEN s
    ELSE LET w == s.processes[index].procWrapper
             s1 == IF s.wrappers[w].redirected THEN stop(s, w) ELSE s
         IN killAllLoop(s1, index - 1)

\* the redirected procuuids in the registry
redirectedTracked(s) ==
    {s.processes[i].procWrapper : i \in 1..Len(s.processes)}
        \cap {w \in 1..Len(s.wrappers) : s.wrappers[w].redirected}

\* killAll(): the stop loop; it returns at once when nothing redirected is
\* left, and otherwise stays in its sleep/processEvents loop
killAll(s) ==
    LET s1 == killAllLoop(s, Len(s.processes)) IN
    IF s1.blocked THEN s1
    ELSE IF getDetachedCount(s1) > 0
    THEN [s1 EXCEPT !.frames =
             Append(@, [routine |-> "killAll", w |-> None, attach |-> FALSE,
                        sock |-> None, snap |-> redirectedTracked(s)])]
    ELSE [s1 EXCEPT !.returned = @ \cup redirectedTracked(s)]

\* a bug: the entry is stopped whether redirected or not
kill_anyEntry(s, procuuid) ==
    LET index == getProcessIndex(s, procuuid) IN
    IF index = None THEN s
    ELSE stop(s, s.processes[index].procWrapper)

\* a bug: every redirected entry is stopped, not only the one asked for
kill_everything(s, procuuid) ==
    LET index == getProcessIndex(s, procuuid) IN
    IF index = None THEN s
    ELSE IF ~s.wrappers[s.processes[index].procWrapper].redirected THEN s
    ELSE killAllLoop(s, Len(s.processes))

kill(s, procuuid) ==
    LET index == getProcessIndex(s, procuuid) IN
    IF index = None THEN s
    ELSE IF ~s.wrappers[s.processes[index].procWrapper].redirected THEN s
    ELSE stop(s, s.processes[index].procWrapper)

\* __onUserInput: the slot of the consoles' sigUserInput
onUserInput(s, procuuid, userInputText) ==
    LET index == getProcessIndex(s, procuuid) IN
    IF index = None THEN s
    ELSE LET w == s.processes[index].procWrapper IN
         IF s.wrappers[w].redirected THEN userInput(s, w, userInputText)
         ELSE s

RECURSIVE onWaitTimerLoop(_, _, _)
onWaitTimerLoop(s, index, needNewTimer) ==
    IF index < 1 THEN [s EXCEPT !.waitTimer = needNewTimer]
    ELSE LET w == s.processes[index].procWrapper IN
         IF ~s.wrappers[w].redirected
         THEN IF waitDetached(s, w)
              THEN onWaitTimerLoop([s EXCEPT !.processes = RemoveAt(@, index)],
                                   index - 1, needNewTimer)
              ELSE onWaitTimerLoop(s, index - 1, TRUE)
         ELSE onWaitTimerLoop(s, index - 1, needNewTimer)

\* a bug: the timer is started again at the end of every tick
onWaitTimer_rearm(s) ==
    [onWaitTimerLoop(s, Len(s.processes), FALSE) EXCEPT !.waitTimer = TRUE]

onWaitTimer(s) == onWaitTimerLoop(s, Len(s.processes), FALSE)

\* a bug: the entry is stopped when the timeout is reached, not passed
timedOut_atLimit(startTime) == now - startTime >= HANDSHAKE_TIMEOUT

\* time.time() - startTime > HANDSHAKE_TIMEOUT
timedOut(startTime) == now - startTime > HANDSHAKE_TIMEOUT

\* a bug: the tick does not look at the state of the entry
RECURSIVE onPrologueTimerLoop_anyState(_, _, _)
onPrologueTimerLoop_anyState(s, index, needNewTimer) ==
    IF s.blocked THEN s
    ELSE IF index < 1 THEN [s EXCEPT !.prologueTimer = needNewTimer]
    ELSE LET procuuid == s.prologueProcesses[index][1]
             startTime == s.prologueProcesses[index][2]
             procIndex == getProcessIndex(s, procuuid)
             dropped == [s EXCEPT !.prologueProcesses = RemoveAt(@, index)]
         IN IF procIndex = None
            THEN onPrologueTimerLoop_anyState(dropped, index - 1,
                                              needNewTimer)
            ELSE LET item == s.processes[procIndex]
                     w == item.procWrapper
                 IN IF timedOut(startTime)
                    THEN onPrologueTimerLoop_anyState(
                             stop(appendIDEMessage(s, item.widget,
                                                   <<"Timeout", 0>>), w),
                             index - 1, needNewTimer)
                    ELSE onPrologueTimerLoop_anyState(s, index - 1, TRUE)

RECURSIVE onPrologueTimerLoop(_, _, _)
onPrologueTimerLoop(s, index, needNewTimer) ==
    IF s.blocked THEN s
    ELSE IF index < 1 THEN [s EXCEPT !.prologueTimer = needNewTimer]
    ELSE LET procuuid == s.prologueProcesses[index][1]
             startTime == s.prologueProcesses[index][2]
             procIndex == getProcessIndex(s, procuuid)
             dropped == [s EXCEPT !.prologueProcesses = RemoveAt(@, index)]
         IN IF procIndex = None
            THEN onPrologueTimerLoop(dropped, index - 1, needNewTimer)
            ELSE LET item == s.processes[procIndex]
                     w == item.procWrapper
                 IN IF s.wrappers[w].state # STATE_PROLOGUE
                    THEN onPrologueTimerLoop(dropped, index - 1, needNewTimer)
                    ELSE IF timedOut(startTime)
                    THEN onPrologueTimerLoop(
                             stop(appendIDEMessage(s, item.widget,
                                                   <<"Timeout", 0>>), w),
                             index - 1, needNewTimer)
                    ELSE onPrologueTimerLoop(s, index - 1, TRUE)

onPrologueTimer(s) ==
    onPrologueTimerLoop(s, Len(s.prologueProcesses), FALSE)

\* ------------------------------------------------------------------ inputs
\* what a child sends once connected
DataLines ==
    {Line(METHOD_STDOUT, 0, 1), Line(METHOD_EPILOGUE_EXIT_CODE, 0, 0)}

\* what any peer may send: also a line that is not JSON, a method the
\* wrapper does not know, a known method whose params lack its field
AnyLines ==
    DataLines
        \cup {Malformed, Line("unknown", 0, 0),
              Line(METHOD_STDOUT, 0, Absent),
              Line(METHOD_EPILOGUE_EXIT_CODE, 0, Absent)}

\* the output of a child and its requests for input
TextLines ==
    {Line(METHOD_STDOUT, 0, 1), Line(METHOD_STDERR, 0, 2),
     Line(METHOD_STDIN, 0, 3)}

\* the exit codes a child may report: params['exitCode'] is passed on as it
\* comes (239), whatever the number
CodeLines ==
    {Line(METHOD_EPILOGUE_EXIT_CODE, 0, c) : c \in {0, KILLED, DISCONNECTED}}

\* the sequences of at most n lines out of a set
RECURSIVE SeqsUpTo(_, _)
SeqsUpTo(lines, n) ==
    IF n = 0 THEN {<<>>}
    ELSE LET shorter == SeqsUpTo(lines, n - 1) IN
         shorter \cup {Append(q, l) : q \in shorter, l \in lines}

\* a handshake line for each procuuid that can be given out
HandshakeLines == {Line(METHOD_PROC_ID_INFO, c, 0) : c \in 1..MaxLaunch}

\* any first line: not JSON, a handshake with a procuuid never given out
\* (0), a message of another method carrying a procuuid
FirstLines ==
    {Malformed}
        \cup {Line(METHOD_PROC_ID_INFO, c, 0) : c \in 0..MaxLaunch}
        \cup {Line(METHOD_STDOUT, c, 1) : c \in 1..MaxLaunch}

\* what has arrived when waitForReadyRead(1000) returns: nothing (it timed
\* out), or the first line
InitialData == {<<>>} \cup {<<h>> : h \in HandshakeLines}

AnyInitialData == {<<>>} \cup {<<h>> : h \in FirstLines}

\* the handshake and, in the same read, lines the child sent without
\* waiting for the 'start' message
EagerData(lines) ==
    {<<h>> \o rest : h \in HandshakeLines, rest \in SeqsUpTo(lines, MaxLines)}

\* the lines a user types
Texts == {"a", "b"}

\* the 'stdin' lines wrapper w has sent
InputsOf(w) ==
    Cardinality({i \in 1..Len(log[w]) : log[w][i][1] = METHOD_STDIN})

newSocket(data) ==
    [open |-> TRUE, inbuf |-> data, readLog |-> <<>>, readyRead |-> None,
     disconnected |-> None, early |-> Len(data) > 1]

\* the wrappers something still refers to: the registry, or a call of
\* their own that has not returned
referenced(w) ==
    \/ getProcessIndex(St, w) # None
    \/ \E i \in 1..Len(frames) : frames[i].w = w

startSent(s, k) ==
    \E w \in 1..Len(s.log) : \E i \in 1..Len(s.log[w]) :
        s.log[w][i] = <<METHOD_PROLOGUE_CONTINUE, k>>

\* -------------------------------------------------------------------- state
InitWith(modes) ==
    /\ processes = <<>>
    /\ prologueProcesses = <<>>
    /\ waitTimer = FALSE
    /\ prologueTimer = FALSE
    /\ wrappers = <<>>
    /\ os = <<>>
    /\ sockets = <<>>
    /\ consoles = <<>>
    /\ ioconsolereuse \in modes
    /\ now = 0
    /\ frames = <<>>
    /\ log = <<>>
    /\ returned = {}
    /\ stopped = <<>>
    /\ blocked = FALSE

Init == InitWith({NO_REUSE})

InitAnyReuse == InitWith({NO_REUSE, REUSE, CLEAR_AND_REUSE})

\* a handler's result, within a depth of nesting; no handler runs while
\* the thread is inside a call that does not return
HandlerWithin(s, depth) ==
    /\ ~blocked
    /\ Len(s.frames) <= depth
    /\ Set(s)
    /\ UNCHANGED <<ioconsolereuse, now>>

\* a handler's result, within the depth of nesting explored
Handler(s) == HandlerWithin(s, MaxDepth)

\* RunManager.run(path, needDialog)
Run ==
    /\ Len(wrappers) < MaxLaunch
    /\ \E redirected \in BOOLEAN, started \in BOOLEAN :
           Handler(run(St, redirected, started))

\* run() of scripts whose run parameters say redirected
RunRedirected ==
    /\ Len(wrappers) < MaxConsoleLaunch
    /\ \E started \in BOOLEAN : Handler(run(St, TRUE, started))

\* QTcpServer.newConnection -> RunManager.__newConnection
Accept(data) ==
    Handler(waitForHandshake(
        [St EXCEPT !.sockets = Append(@, newSocket(data))],
        Len(sockets) + 1))

NewConnection ==
    /\ Len(sockets) < MaxConn
    /\ \E data \in InitialData : Accept(data)

NewConnectionAny ==
    /\ Len(sockets) < MaxConn
    /\ \E data \in AnyInitialData : Accept(data)

\* a child that does not wait for the 'start' message
NewConnectionEager ==
    /\ Len(sockets) < MaxConn
    /\ \E data \in EagerData(DataLines) : Accept(data)

\* a child whose text comes in the same read as its handshake
NewConnectionText ==
    /\ Len(sockets) < MaxConn
    /\ \E data \in EagerData(TextLines) : Accept(data)

\* a peer that sends any lines
NewConnectionLines ==
    /\ Len(sockets) < MaxLineConn
    /\ \E data \in EagerData(AnyLines) : Accept(data)

\* the child writes a line; readyRead -> __parseClientLine, unless the
\* slot of this socket's readyRead is running (Qt does not emit it again)
\* (lines: what the peer may write)
SendWithin(lines, depth) ==
    \E k \in 1..Len(sockets), line \in lines :
        /\ sockets[k].open
        /\ Len(sockets[k].readLog) + Len(sockets[k].inbuf) <= MaxLines
        /\ \/ sockets[k].readyRead # None
           \/ \E w \in 1..Len(wrappers) : wrappers[w].clientSocket = k
        /\ LET s1 == [St EXCEPT !.sockets[k].inbuf = Append(@, line),
                                !.sockets[k].early =
                                    @ \/ ~startSent(St, k)]
               r == sockets[k].readyRead
               inSlot == \E i \in 1..Len(frames) : frames[i].sock = k
           IN HandlerWithin(IF r # None /\ ~inSlot THEN readPass(s1, r, k)
                            ELSE s1, depth)

Send(lines) == SendWithin(lines, MaxDepth)

ChildSend == Send(DataLines)

ChildSendAny == Send(AnyLines)

\* a child that writes text and asks for input, also while a read pass of
\* its wrapper is inside processEvents()
ChildSendText == SendWithin(TextLines, MaxReentry)

\* a child that reports any exit code
ChildSendCodes == Send(CodeLines)

\* the peer closes connection k; disconnected -> __disconnected
PeerCloseOf(k) ==
    /\ sockets[k].open
    /\ \/ sockets[k].disconnected # None
       \/ \E w \in 1..Len(wrappers) : wrappers[w].clientSocket = k
    /\ LET s1 == [St EXCEPT !.sockets[k].open = FALSE]
           r == sockets[k].disconnected
       IN Handler(IF r # None THEN disconnected(s1, r) ELSE s1)

PeerClose == \E k \in 1..Len(sockets) : PeerCloseOf(k)

\* RunManager.kill(procuuid), for any procuuid (0 was never given out)
KillOf(procuuid) == Handler(kill(St, procuuid))

Kill == \E procuuid \in 0..MaxLaunch : KillOf(procuuid)

\* RunManager.killAll()
KillAll == Handler(killAll(St))

\* __waitTimer.timeout -> __onWaitTimer
OnWaitTimer ==
    /\ waitTimer
    /\ Handler(onWaitTimer(St))

\* __prologueTimer.timeout -> __onPrologueTimer
OnPrologueTimer ==
    /\ prologueTimer
    /\ Handler(onPrologueTimer(St))

\* a console hands over a line the user typed: sigUserInput -> __onUserInput
\* (a console may name any procuuid; at most MaxInputs lines per wrapper)
UserInput ==
    \E procuuid \in 0..MaxLaunch, text \in Texts :
        /\ procuuid \in 1..Len(wrappers) => InputsOf(procuuid) < MaxInputs
        /\ Handler(onUserInput(St, procuuid, text))

\* RemoteProcessWrapper.userInput() called by a holder of the wrapper
DirectInput ==
    \E w \in 1..Len(wrappers), text \in Texts :
        /\ InputsOf(w) < MaxInputs
        /\ Handler(userInput(St, w, text))

\* a detached child exits
ProcExit ==
    \E w \in 1..Len(wrappers) :
        /\ os[w] = "alive"
        /\ ~wrappers[w].redirected
        /\ os' = [os EXCEPT ![w] = "dead"]
        /\ UNCHANGED <<processes, prologueProcesses, waitTimer, prologueTimer,
                       wrappers, sockets, consoles, ioconsolereuse, now,
                       frames, log, returned, stopped, blocked>>

\* a child gets out of reach of kill() (it has changed its uid, or sits in
\* a system call that cannot be interrupted) and from then on stays alive
ProcStuck ==
    \E w \in 1..Len(wrappers) :
        /\ os[w] = "alive"
        /\ os' = [os EXCEPT ![w] = "unkillable"]
        /\ UNCHANGED <<processes, prologueProcesses, waitTimer, prologueTimer,
                       wrappers, sockets, consoles, ioconsolereuse, now,
                       frames, log, returned, stopped, blocked>>

\* time passes (it is read only against the start times of the watch list)
Pass(seconds) ==
    /\ now + seconds <= MaxTime
    /\ prologueProcesses # <<>>
    /\ now' = now + seconds
    /\ UNCHANGED <<processes, prologueProcesses, waitTimer, prologueTimer,
                   wrappers, os, sockets, consoles, ioconsolereuse, frames,
                   log, returned, stopped, blocked>>

\* a second passes
Elapse == Pass(1)

\* more than the handshake timeout passes
ElapseLong == Pass(HANDSHAKE_TIMEOUT + 1)

\* processEvents() returns to the innermost suspended call, which goes on
Resume ==
    /\ ~blocked
    /\ frames # <<>>
    /\ LET f == frames[Len(frames)]
           s0 == [St EXCEPT !.frames = SubSeq(@, 1, Len(@) - 1)]
       IN IF f.routine = "killAll"
          THEN IF getDetachedCount(St) = 0
               THEN Set([s0 EXCEPT !.returned = @ \cup f.snap])
               ELSE Set(St)
          ELSE LET r == parseClientLine(s0, f.w) IN
               IF r.yield THEN Set([r.st EXCEPT !.frames = Append(@, f)])
               ELSE IF f.attach /\ ~r.raised THEN Set(sendStart(r.st, f.w))
               ELSE Set(r.st)
    /\ UNCHANGED <<ioconsolereuse, now>>

\* Python may destroy a wrapper nothing refers to any more, at once or
\* later; the connections of socket signals to its slots go with it
Collect ==
    \E w \in 1..Len(wrappers) :
        /\ ~blocked
        /\ ~referenced(w)
        /\ \E k \in 1..Len(sockets) :
               /\ sockets[k].open
               /\ sockets[k].readyRead = w \/ sockets[k].disconnected = w
        /\ sockets' = [k \in 1..Len(sockets) |->
                          [sockets[k] EXCEPT
                              !.readyRead = IF @ = w THEN None ELSE @,
                              !.disconnected = IF @ = w THEN None ELSE @]]
        /\ UNCHANGED <<processes, prologueProcesses, waitTimer, prologueTimer,
                       wrappers, os, consoles, ioconsolereuse, now, frames,
                       log, returned, stopped, blocked>>

\* RemoteProcessWrapper.stop() called by a holder of the wrapper
DirectStop ==
    \E w \in 1..Len(wrappers) :
        /\ stopped[w] < MaxStops
        /\ Handler(stop(St, w))

\* --------------------------------------------------------- specifications
\* the run manager under every event
Next ==
    \/ Run
    \/ NewConnection
    \/ ChildSend
    \/ PeerClose
    \/ Kill
    \/ KillAll
    \/ OnWaitTimer
    \/ OnPrologueTimer
    \/ ProcExit
    \/ ElapseLong
    \/ Resume
    \/ Collect

Spec == Init /\ [][Next]_vars

\* connections that open with any first line, or with none
NextHandshake ==
    \/ Run
    \/ NewConnectionAny
    \/ ChildSend
    \/ PeerClose
    \/ Kill
    \/ OnPrologueTimer
    \/ ElapseLong
    \/ Resume

SpecHandshake == Init /\ [][NextHandshake]_vars

\* redirected launches under each console reuse mode
NextConsole ==
    \/ RunRedirected
    \/ NewConnection
    \/ PeerClose
    \/ Kill
    \/ KillAll

SpecConsole == InitAnyReuse /\ [][NextConsole]_vars

\* the prologue timer against a clock that ticks in seconds
NextClock ==
    \/ Run
    \/ NewConnection
    \/ Kill
    \/ OnPrologueTimer
    \/ Elapse

SpecClock == Init /\ [][NextClock]_vars

\* a wrapper whose holder calls stop() on it
NextWrapper ==
    \/ Run
    \/ NewConnection
    \/ ChildSend
    \/ PeerClose
    \/ Resume
    \/ Kill
    \/ DirectStop

SpecWrapper == Init /\ [][NextWrapper]_vars

\* children that send their lines in the same read as the handshake
NextEager ==
    \/ Run
    \/ NewConnectionEager
    \/ ChildSend
    \/ PeerClose
    \/ Kill
    \/ Resume

SpecEager == Init /\ [][NextEager]_vars

\* peers that send lines of any kind
NextLines ==
    \/ Run
    \/ NewConnectionLines
    \/ ChildSendAny
    \/ Kill
    \/ Resume

SpecLines == Init /\ [][NextLines]_vars

\* ------------------------------------------------------------------- claims
\* children the OS does not kill
NextKillFail ==
    \/ Run
    \/ NewConnection
    \/ PeerClose
    \/ Kill
    \/ KillAll
    \/ OnPrologueTimer
    \/ ElapseLong
    \/ ProcStuck

SpecKillFail == Init /\ [][NextKillFail]_vars

\* the user types into the consoles
NextInput ==
    \/ Run
    \/ NewConnection
    \/ ChildSend
    \/ PeerClose
    \/ Kill
    \/ Resume
    \/ UserInput
    \/ DirectInput

SpecInput == Init /\ [][NextInput]_vars

\* the two supervisory timers
NextTimers ==
    \/ Run
    \/ NewConnection
    \/ Kill
    \/ OnWaitTimer
    \/ OnPrologueTimer
    \/ ProcExit
    \/ ElapseLong

SpecTimers == Init /\ [][NextTimers]_vars

\* children that report any exit code
NextCodes ==
    \/ Run
    \/ NewConnection
    \/ ChildSendCodes
    \/ PeerClose
    \/ Kill
    \/ Resume

SpecCodes == Init /\ [][NextCodes]_vars

\* peers that send lines of any kind and close the connection
NextLinesClose ==
    \/ Run
    \/ NewConnectionLines
    \/ ChildSendAny
    \/ PeerClose
    \/ Kill
    \/ Resume

SpecLinesClose == Init /\ [][NextLinesClose]_vars

\* children that write text while their lines are being read
NextText ==
    \/ Run
    \/ NewConnectionText
    \/ ChildSendText
    \/ Resume

SpecText == Init /\ [][NextText]_vars

\* children that send all their lines in the same read as the handshake
NextHandoff ==
    \/ Run
    \/ NewConnectionEager
    \/ PeerClose
    \/ Kill
    \/ Resume

SpecHandoff == Init /\ [][NextHandoff]_vars

Tracked(w) == getProcessIndex(St, w) # None

Finished(w) == {i \in 1..Len(log[w]) : log[w][i][1] = "finished"}

NumFinished(w) == Cardinality(Finished(w))

NumKilled(w) ==
    Cardinality({i \in Finished(w) : log[w][i][2] = KILLED})

\* the registry and what it owns, but for the sockets accepted in this step
RegistryUnchanged ==
    /\ processes' = processes
    /\ prologueProcesses' = prologueProcesses
    /\ wrappers' = wrappers
    /\ waitTimer' = waitTimer
    /\ prologueTimer' = prologueTimer
    /\ consoles' = consoles
    /\ log' = log
    /\ SubSeq(sockets', 1, Len(sockets)) = sockets

\* the first line read from the connection accepted in this step, if any
Accepted == Len(sockets') = Len(sockets) + 1

FirstRead == sockets'[Len(sockets')].readLog

\* C1: every launch, redirected or not, spawned or not, gets exactly one
\* finished event, with the code KILLED, DISCONNECTED or an exit code >= 0:
\* never two, and one once its entry has left the registry.
C1_ExactlyOneFinished ==
    \A w \in 1..Len(wrappers) :
        /\ NumFinished(w) <= 1
        /\ ~Tracked(w) => NumFinished(w) = 1
        /\ \A i \in Finished(w) :
               log[w][i][2] \in {KILLED, DISCONNECTED} \/ log[w][i][2] >= 0

\* C2: however many times stop() is called on a wrapper (at least once), the
\* wrapper emits finished(KILLED) exactly once in all.
C2_StopIdempotent ==
    \A w \in 1..Len(wrappers) : stopped[w] >= 1 => NumKilled(w) = 1

\* a step in which killAll() returns
KillAllReturns ==
    \/ KillAll /\ Len(frames') = Len(frames)
    \/ /\ Resume
       /\ frames[Len(frames)].routine = "killAll"
       /\ Len(frames') < Len(frames)

\* C3: killAll() returns only with no redirected entry in the registry, and
\* once it has returned no finished event is emitted for a redirected entry
\* that was tracked when it was called.
C3_KillAllDrains ==
    [][/\ KillAllReturns => getDetachedCount(St)' = 0
       /\ \A c \in returned : NumFinished(c)' = NumFinished(c)]_vars

\* C4: a well-formed proc-id-info handshake whose procuuid is not in the
\* registry leaves the registry unchanged, and the connection is closed.
C4_UnknownHandshake ==
    [][(/\ Accepted
        /\ FirstRead # <<>>
        /\ FirstRead[1].wf
        /\ FirstRead[1].method = METHOD_PROC_ID_INFO
        /\ ~Tracked(FirstRead[1].procuuid))
       => /\ RegistryUnchanged
          /\ ~sockets'[Len(sockets')].open]_vars

\* C5: a connection that sends nothing within the handshake read bound
\* leaves the registry unchanged, and the connection is closed.
C5_HandshakeTimeout ==
    [][(Accepted /\ FirstRead = <<>>)
       => /\ RegistryUnchanged
          /\ ~sockets'[Len(sockets')].open]_vars

C7_NoSharedWidget ==
    ioconsolereuse \in {REUSE, CLEAR_AND_REUSE} =>
        \A i, j \in 1..Len(processes) :
            (i # j /\ processes[i].widget # None)
                => processes[i].widget # processes[j].widget

\* C8: under NO_REUSE every redirected launch gets a console created for it,
\* which no tracked entry and no earlier launch has.
C8_NoReuseFresh ==
    ioconsolereuse = NO_REUSE =>
        \A w \in 1..Len(wrappers) :
            wrappers[w].redirected =>
                /\ wrappers[w].widget \in 1..Len(consoles)
                /\ consoles[wrappers[w].widget].procuuid = w
                /\ \A v \in 1..Len(wrappers) :
                       v # w => wrappers[v].widget # wrappers[w].widget

\* under NO_REUSE a launch follows one that has finished, and one that has not
C8_Witness ==
    /\ ioconsolereuse = NO_REUSE
    /\ \E u, v, w \in 1..Len(wrappers) :
           /\ u < v /\ v < w
           /\ wrappers[u].redirected /\ ~Tracked(u) /\ NumFinished(u) = 1
           /\ wrappers[v].redirected /\ Tracked(v)
           /\ wrappers[w].redirected /\ Tracked(w)

\* the child of c connected once, on k, and sent its handshake, then (after
\* the 'start' message) a stdout line, then its exit code 0
HappyPath(c, k) ==
    /\ wrappers[c].redirected
    /\ sockets[k].readLog =
           <<Line(METHOD_PROC_ID_INFO, c, 0), Line(METHOD_STDOUT, 0, 1),
             Line(METHOD_EPILOGUE_EXIT_CODE, 0, 0)>>
    /\ ~sockets[k].early
    /\ \A j \in 1..Len(sockets) :
           (j # k /\ sockets[j].readLog # <<>>)
               => sockets[j].readLog[1] # Line(METHOD_PROC_ID_INFO, c, 0)

HappyPathSeen(c, k) ==
    /\ log[c] = <<<<METHOD_PROLOGUE_CONTINUE, k>>, <<"stdout", 1>>,
                  <<METHOD_EPILOGUE_EXIT, k>>, <<"finished", 0>>>>
    /\ ~Tracked(c)

\* C9: when the child of a redirected launch c connects, sends
\* proc-id-info(c), then a stdout line, then epilogue-exit-code e >= 0, what
\* is observed is: prologue-continue sent, one stdout event with the text,
\* (epilogue-exit sent,) finished(c, e), and c is no longer in the registry.
C9_HappyPath ==
    \A c \in 1..Len(wrappers), k \in 1..Len(sockets) :
        HappyPath(c, k) => HappyPathSeen(c, k)

C9_Witness ==
    \E c \in 1..Len(wrappers), k \in 1..Len(sockets) :
        HappyPath(c, k) /\ HappyPathSeen(c, k)

\* the launches the prologue timer watches and has to decide about
Waiting ==
    {i \in 1..Len(prologueProcesses) :
        /\ Tracked(prologueProcesses[i][1])
        /\ wrappers[prologueProcesses[i][1]].state = STATE_PROLOGUE}

\* C10: a tick of the prologue timer stops a watched entry that is still in
\* the prologue if more than 15 s have passed since its launch (the timeout
\* message goes to its console, finished(c, KILLED) is emitted, the entry
\* is removed) and leaves it alone, with the timer armed again, if not; and
\* the timer is armed as long as such an entry is tracked.
C10_PrologueTimeout ==
    [][/\ OnPrologueTimer =>
              \A i \in Waiting :
                  \A c \in {prologueProcesses[i][1]} :
                  \A startTime \in {prologueProcesses[i][2]} :
                  \A widget \in {wrappers[c].widget} :
                      IF now - startTime > HANDSHAKE_TIMEOUT
                      THEN /\ ~Tracked(c)'
                           /\ log'[c] = log[c] \o <<<<"kill", 0>>,
                                                    <<"finished", KILLED>>>>
                           /\ consoles'[widget].text =
                                  consoles[widget].text \o
                                      <<<<"Timeout", 0>>,
                                        <<"Script killed", 0>>>>
                      ELSE /\ Tracked(c)'
                           /\ wrappers'[c] = wrappers[c]
                           /\ log'[c] = log[c]
                           /\ prologueTimer'
       /\ (Waiting # {} => prologueTimer)']_vars

\* a tick stopped an entry 16 s after its launch, one that had been left
\* alone by the ticks before
C10_Witness ==
    \E c \in 1..Len(wrappers) :
        /\ wrappers[c].redirected
        /\ log[c] = <<<<"kill", 0>>, <<"finished", KILLED>>>>
        /\ consoles[wrappers[c].widget].text =
               <<<<"Starting", 0>>, <<"Timeout", 0>>, <<"Script killed", 0>>>>
        /\ \E i \in 1..Len(prologueProcesses) :
               /\ prologueProcesses[i][1] = c
               /\ now - prologueProcesses[i][2] = HANDSHAKE_TIMEOUT + 1

\* an entry a tick of the wait timer has to keep: redirected, or its
\* process has not exited
StillRunning(item) ==
    \/ wrappers[item.procWrapper].redirected
    \/ os[item.procWrapper] # "dead"

\* C11: a tick of the wait timer removes from the registry exactly the
\* non-redirected entries whose process has exited; every other entry stays,
\* in its place, and no wrapper, socket, console or watch entry changes.
C11_WaitTimerTick ==
    [][OnWaitTimer =>
          /\ processes' = SelectSeq(processes, StillRunning)
          /\ wrappers' = wrappers
          /\ os' = os
          /\ sockets' = sockets
          /\ consoles' = consoles
          /\ log' = log
          /\ prologueProcesses' = prologueProcesses
          /\ prologueTimer' = prologueTimer]_vars

\* of two non-redirected launches the one that exited was removed by the
\* timer (it has no finished event), the one still running is tracked
C11_Witness ==
    \E u, v \in 1..Len(wrappers) :
        /\ ~wrappers[u].redirected /\ os[u] = "dead"
        /\ ~Tracked(u) /\ NumFinished(u) = 0
        /\ ~wrappers[v].redirected /\ os[v] = "alive" /\ Tracked(v)

\* C12: a handshake for a wrapper that is not in STATE_PROLOGUE, or that
\* has a socket already, is rejected: the wrapper keeps its socket and its
\* state.
C12_AttachOnlyInPrologue ==
    [][\A c \in 1..Len(wrappers) :
          (/\ Accepted
           /\ FirstRead # <<>>
           /\ FirstRead[1] = Line(METHOD_PROC_ID_INFO, c, 0)
           /\ Tracked(c)
           /\ \/ wrappers[c].state # STATE_PROLOGUE
              \/ wrappers[c].clientSocket # None)
          => /\ wrappers'[c].clientSocket = wrappers[c].clientSocket
             /\ wrappers'[c].state = wrappers[c].state]_vars

\* the messages a wrapper sent to the child on socket k, out of its log
SentOn(lg, k) ==
    LET isSent(e) ==
            /\ e[2] = k
            /\ e[1] \in {METHOD_PROLOGUE_CONTINUE, METHOD_EPILOGUE_EXIT,
                         METHOD_STDIN}
    IN SelectSeq(lg, isSent)

\* the connection accepted in this step opens with the handshake of c
HandshakeOf(c) ==
    /\ Accepted
    /\ FirstRead # <<>>
    /\ FirstRead[1] = Line(METHOD_PROC_ID_INFO, c, 0)

\* C13: the handshake of a tracked wrapper in STATE_PROLOGUE moves it to
\* STATE_RUNNING and makes it send prologue-continue on the new socket, once
\* (at the latest when the read pass of the attach has returned), and
\* nothing is sent on a socket before its prologue-continue.
C13_AttachSendsStart ==
    [][/\ \A c \in 1..Len(wrappers) :
              (HandshakeOf(c) /\ Tracked(c)
                  /\ wrappers[c].state = STATE_PROLOGUE)
              => /\ wrappers'[c].state = STATE_RUNNING
                 /\ \/ SentOn(log'[c], Len(sockets')) =
                           <<<<METHOD_PROLOGUE_CONTINUE, Len(sockets')>>>>
                    \/ /\ SentOn(log'[c], Len(sockets')) = <<>>
                       /\ \E i \in 1..Len(frames') :
                              frames'[i].attach /\ frames'[i].w = c
       /\ \A w \in 1..Len(wrappers'), k \in 1..Len(sockets') :
              SentOn(log'[w], k) # <<>>
                  => SentOn(log'[w], k)[1] = <<METHOD_PROLOGUE_CONTINUE, k>>]_vars

\* what a wrapper does towards the child or its observers, but for finishing
Doings ==
    {METHOD_PROLOGUE_CONTINUE, METHOD_EPILOGUE_EXIT, METHOD_STDIN,
     "stdout", "stderr", "input"}

\* C14: once a wrapper has emitted finished, it sends no message and emits
\* no stdout, stderr or input event any more, and its state does not change.
C14_TerminatedFinal ==
    [][\A w \in 1..Len(wrappers') :
          /\ \A i, j \in 1..Len(log'[w]) :
                 (i < j /\ log'[w][i][1] = "finished")
                     => log'[w][j][1] \notin Doings
          /\ (w <= Len(wrappers) /\ NumFinished(w) >= 1)
                 => wrappers'[w].state = wrappers[w].state]_vars

\* C15: kill(id) changes nothing and emits nothing when id is not in the
\* registry or its entry is not redirected.
C15_KillNoOp ==
    [][\A id \in 0..MaxLaunch :
          (KillOf(id) /\ (~Tracked(id) \/ ~wrappers[id].redirected))
              => UNCHANGED vars]_vars

\* kill() of a tracked non-redirected entry whose process runs, next to a
\* tracked redirected one, and kill() of a procuuid never given out
C15_Witness ==
    \E id, c \in 1..Len(wrappers) :
        /\ Tracked(id) /\ ~wrappers[id].redirected /\ os[id] = "alive"
        /\ Tracked(c) /\ wrappers[c].redirected
        /\ kill(St, id) = St
        /\ kill(St, 0) = St

\* C16: kill(id) of a tracked redirected entry, in STATE_PROLOGUE or in
\* STATE_RUNNING, runs the kill sequence, emits finished(id, KILLED) and
\* removes that entry and no other; no other wrapper changes (state,
\* socket, widget) and no other wrapper emits anything.
C16_KillStopsOne ==
    [][\A id \in 1..Len(wrappers) :
          (KillOf(id) /\ Tracked(id) /\ wrappers[id].redirected)
          => /\ log'[id] = log[id] \o <<<<"kill", 0>>, <<"finished", KILLED>>>>
             /\ processes' = RemoveAt(processes, getProcessIndex(St, id))
             /\ \A v \in 1..Len(wrappers) :
                    v # id => /\ wrappers'[v] = wrappers[v]
                              /\ log'[v] = log[v]]_vars

\* a wrapper killed in STATE_RUNNING while an entry launched before it is
\* tracked, and still tracked afterwards
C16_Witness ==
    \E u, v \in 1..Len(wrappers) :
        /\ v < u
        /\ wrappers[u].redirected /\ wrappers[u].state = STATE_RUNNING
        /\ ~Tracked(u)
        /\ \E k \in 1..Len(sockets) :
               log[u] = <<<<METHOD_PROLOGUE_CONTINUE, k>>, <<"kill", 0>>,
                          <<"finished", KILLED>>>>
        /\ wrappers[v].redirected /\ Tracked(v)

\* the notifications of a finish in a console's text
Notices(text) ==
    Cardinality({i \in 1..Len(text) :
                    text[i][1] \in {"Script killed", "Connection lost",
                                    "Script finished"}})

\* a step in which w, and no other wrapper, emits finished
FinishedAlone(w) ==
    /\ NumFinished(w)' > NumFinished(w)
    /\ \A v \in 1..Len(wrappers) : v # w => NumFinished(v)' = NumFinished(v)

\* C17: a finished event for a procuuid whose entry has been removed
\* changes nothing in the registry, the watch list, the timers and the
\* consoles; no finished event of w removes the entry of another wrapper,
\* and the console of w is notified of a finish once at most.
C17_DoubleFinish ==
    [][\A w \in 1..Len(wrappers) :
          FinishedAlone(w)
          => /\ \A i \in 1..Len(processes) :
                    processes[i].procWrapper # w
                        => \E j \in 1..Len(processes') :
                               processes'[j] = processes[i]
             /\ NumFinished(w) >= 1
                    => /\ processes' = processes
                       /\ prologueProcesses' = prologueProcesses
                       /\ consoles' = consoles
                       /\ waitTimer' = waitTimer
                       /\ prologueTimer' = prologueTimer
             /\ wrappers[w].widget # None
                    => Notices(consoles'[wrappers[w].widget].text) <= 1]_vars

\* a redirected wrapper has emitted finished twice, its console has one
\* notification, and another entry is still tracked
C17_Witness ==
    \E w, v \in 1..Len(wrappers) :
        /\ NumFinished(w) = 2
        /\ wrappers[w].widget # None
        /\ Notices(consoles[wrappers[w].widget].text) = 1
        /\ v # w /\ Tracked(v)

\* the code of the first finished event in a log after its first n events
FirstCodeAfter(lg, n) ==
    LET new == {i \in (n + 1)..Len(lg) : lg[i][1] = "finished"}
    IN lg[CHOOSE i \in new : \A j \in new : i <= j][2]

\* the finish messages in a console's text, in order
NoticesOf(text) ==
    LET isNotice(m) ==
            m[1] \in {"Script killed", "Connection lost", "Script finished"}
    IN SelectSeq(text, isNotice)

\* an entry whose wrapper emits no finished event in this step
NotFinishing(item) ==
    NumFinished(item.procWrapper)' = NumFinished(item.procWrapper)

\* C18: a finished(id, code) event for a tracked entry removes that entry
\* (the registry keeps exactly the entries whose wrappers emitted none), and
\* the entry's console gets one message: the killed message for KILLED, the
\* connection-lost message for DISCONNECTED, else the exit code's message.
C18_FinishNotifies ==
    [][\A w \in 1..Len(wrappers) :
          (Tracked(w) /\ NumFinished(w)' > NumFinished(w))
          => /\ processes' = SelectSeq(processes, NotFinishing)
             /\ wrappers[w].widget # None
                => \A code \in {FirstCodeAfter(log'[w], Len(log[w]))} :
                       NoticesOf(consoles'[wrappers[w].widget].text) =
                           <<IF code = KILLED THEN <<"Script killed", 0>>
                             ELSE IF code = DISCONNECTED
                             THEN <<"Connection lost", 0>>
                             ELSE <<"Script finished", code>>>>]_vars

\* one console was told of an exit code, another of a lost connection
C18_Witness ==
    \E u, v \in 1..Len(wrappers) :
        /\ wrappers[u].widget # None /\ wrappers[v].widget # None
        /\ NoticesOf(consoles[wrappers[u].widget].text) =
               <<<<"Script finished", 0>>>>
        /\ NoticesOf(consoles[wrappers[v].widget].text) =
               <<<<"Connection lost", 0>>>>

\* C19: when the peer closes the socket of a wrapper in STATE_RUNNING that
\* has not finished, the wrapper runs the kill sequence (its process is
\* dead and reaped afterwards), then emits finished(procuuid, DISCONNECTED),
\* and its entry is removed.
C19_PeerCloseKills ==
    [][\A k \in 1..Len(sockets), w \in 1..Len(wrappers) :
          (/\ PeerCloseOf(k)
           /\ sockets[k].disconnected = w
           /\ wrappers[w].clientSocket = k
           /\ wrappers[w].state = STATE_RUNNING
           /\ Tracked(w)
           /\ NumFinished(w) = 0)
          => /\ log'[w] = log[w] \o <<<<"kill", 0>>,
                                      <<"finished", DISCONNECTED>>>>
             /\ os'[w] = "dead"
             /\ ~wrappers'[w].proc
             /\ wrappers'[w].clientSocket = None
             /\ ~Tracked(w)']_vars

\* a redirected wrapper was attached, received a stdout line, and lost its
\* connection: it killed its process and emitted finished(DISCONNECTED)
C19_Witness ==
    \E w \in 1..Len(wrappers), k \in 1..Len(sockets) :
        /\ wrappers[w].redirected
        /\ log[w] = <<<<METHOD_PROLOGUE_CONTINUE, k>>, <<"stdout", 1>>,
                      <<"kill", 0>>, <<"finished", DISCONNECTED>>>>
        /\ os[w] = "dead"
        /\ ~Tracked(w)

\* what the lines read from a socket should have made the wrapper do, a
\* line that is not a complete message of a known method counting for
\* nothing
RECURSIVE Expected(_)
Expected(lines) ==
    IF lines = <<>> THEN <<>>
    ELSE LET l == Head(lines)
             rest == Expected(Tail(lines))
         IN IF ~l.wf \/ l.val = Absent THEN rest
            ELSE IF l.method = METHOD_STDOUT THEN <<<<"stdout", l.val>>>> \o rest
            ELSE IF l.method = METHOD_EPILOGUE_EXIT_CODE
            THEN <<<<METHOD_EPILOGUE_EXIT, 0>>, <<"finished", l.val>>>> \o rest
            ELSE rest

\* what the wrapper did for the lines it read: events, the 'exit' message
\* (without its socket), finished with an exit code
RECURSIVE Reactions(_)
Reactions(lg) ==
    IF lg = <<>> THEN <<>>
    ELSE LET e == Head(lg)
             rest == Reactions(Tail(lg))
         IN IF e[1] \in {"stdout", "stderr", "input"} THEN <<e>> \o rest
            ELSE IF e[1] = METHOD_EPILOGUE_EXIT
            THEN <<<<METHOD_EPILOGUE_EXIT, 0>>>> \o rest
            ELSE IF e[1] = "finished" /\ e[2] >= 0 THEN <<e>> \o rest
            ELSE rest

\* C20: a line that is malformed, of an unknown method, or of a known
\* method without its params field is ignored: the wrapper does nothing for
\* it, and the read loop goes on, so that no line stays buffered on the
\* socket of a listening wrapper once every read pass has returned.
C20_BadLinesIgnored ==
    \A w \in 1..Len(wrappers), k \in 1..Len(sockets) :
        /\ (sockets[k].readLog # <<>>
               /\ sockets[k].readLog[1] = Line(METHOD_PROC_ID_INFO, w, 0))
           => Reactions(log[w]) = Expected(Tail(sockets[k].readLog))
        /\ (/\ frames = <<>>
            /\ wrappers[w].clientSocket = k
            /\ sockets[k].open
            /\ sockets[k].readyRead = w)
           => sockets[k].inbuf = <<>>

\* the step is a run() whose Popen raised: a wrapper was made and no OS
\* process came with it
SpawnFailed ==
    /\ Len(wrappers') = Len(wrappers) + 1
    /\ os'[Len(wrappers')] = "none"

\* C21: when the spawn fails in run(), redirected or not, the registry is
\* as it was before the launch (the new entry gone, every other entry
\* kept), neither timer has been started by the launch, and the watch list
\* holds no entry for the failed launch.
C21_SpawnFailure ==
    [][SpawnFailed =>
          /\ processes' = processes
          /\ waitTimer' = waitTimer
          /\ prologueTimer' = prologueTimer
          /\ \A i \in 1..Len(prologueProcesses') :
                 prologueProcesses'[i][1] # Len(wrappers')]_vars

\* C22: a kill that fails does not wedge the system: when stop() is called
\* on a tracked redirected entry whose child the OS does not kill and which
\* stays alive, stop() returns, finished(KILLED) has been emitted for the
\* entry, and the entry has left the registry.
C22_KillFailure ==
    [][\A w \in 1..Len(wrappers) :
          (/\ Tracked(w)
           /\ wrappers[w].redirected
           /\ os[w] = "unkillable"
           /\ stopped'[w] = stopped[w] + 1)
          => /\ ~blocked'
             /\ \E i \in (Len(log[w]) + 1)..Len(log'[w]) :
                    log'[w][i] = <<"finished", KILLED>>
             /\ \A i \in 1..Len(processes') :
                    processes'[i].procWrapper # w]_vars

\* C23: userInput(text) of a wrapper that has a connection sends one stdin
\* message on it, carrying the wrapper's procuuid and {input: text}, and
\* does nothing else; of a wrapper without a connection (none yet, or none
\* any more) it sends nothing and changes nothing.
C23_UserInput ==
    \A w \in 1..Len(wrappers), text \in Texts :
        LET k == wrappers[w].clientSocket
            sent == <<METHOD_STDIN, k,
                      [procuuid |-> wrappers[w].procuuid, input |-> text]>>
        IN IF k # None /\ sockets[k].open
           THEN userInput(St, w, text) = [St EXCEPT !.log[w] = Append(@, sent)]
           ELSE userInput(St, w, text) = St

\* the second launch has sent the user's "a" after its prologue-continue,
\* while the first launch, still in STATE_PROLOGUE, has sent nothing
C23_Witness ==
    /\ Len(wrappers) = 2
    /\ Tracked(1)
    /\ wrappers[1].state = STATE_PROLOGUE
    /\ log[1] = <<>>
    /\ wrappers[2].clientSocket # None
    /\ log[2] = <<<<METHOD_PROLOGUE_CONTINUE, wrappers[2].clientSocket>>,
                  <<METHOD_STDIN, wrappers[2].clientSocket,
                    [procuuid |-> 2, input |-> "a"]>>>>

\* C24: for a wrapper whose child was spawned, waitDetached() is true
\* exactly when the child has exited, and false while it runs: it is never
\* true for a child that is alive.
C24_WaitDetached ==
    \A w \in 1..Len(wrappers) :
        os[w] # "none" => (waitDetached(St, w) <=> os[w] = "dead")

\* two detached entries the timer is about to poll: the child of the first
\* has exited, the child of the second runs
C24_Witness ==
    /\ waitTimer
    /\ Len(processes) = 2
    /\ \A i \in 1..2 :
           /\ processes[i].procWrapper = i
           /\ ~wrappers[i].redirected
           /\ wrappers[i].proc
    /\ os = <<"dead", "alive">>
    /\ waitDetached(St, 1)
    /\ ~waitDetached(St, 2)

\* the step is a run() whose Popen succeeded
Spawned ==
    /\ Len(wrappers') = Len(wrappers) + 1
    /\ os'[Len(wrappers')] = "alive"

\* C25: a successful redirected launch adds one watch entry (its procuuid,
\* the time of the launch) to the watch list, the only one for that
\* procuuid, leaves the prologue timer armed and the detached-poll timer as
\* it was; a successful non-redirected launch leaves the detached-poll
\* timer armed, and the watch list and the prologue timer as they were.
C25_LaunchArmsTimer ==
    [][Spawned =>
          IF wrappers'[Len(wrappers')].redirected
          THEN /\ prologueProcesses' =
                      Append(prologueProcesses, <<Len(wrappers'), now>>)
               /\ \A i \in 1..Len(prologueProcesses) :
                      prologueProcesses[i][1] # Len(wrappers')
               /\ prologueTimer'
               /\ waitTimer' = waitTimer
          ELSE /\ waitTimer'
               /\ prologueProcesses' = prologueProcesses
               /\ prologueTimer' = prologueTimer]_vars

\* a redirected launch and then a non-redirected one, both started: one
\* watch entry, for the first, and both timers armed
C25_Witness ==
    /\ Len(wrappers) = 2
    /\ Tracked(1) /\ Tracked(2)
    /\ wrappers[1].redirected
    /\ wrappers[1].state = STATE_PROLOGUE
    /\ ~wrappers[2].redirected
    /\ os = <<"alive", "alive">>
    /\ prologueProcesses = <<<<1, 0>>>>
    /\ now = 1
    /\ prologueTimer
    /\ waitTimer

\* the entries of a state that are work for the detached-poll timer: not
\* redirected, tracked, the child not seen to have exited
DetachedWork(s) ==
    {i \in 1..Len(s.processes) :
        /\ ~s.wrappers[s.processes[i].procWrapper].redirected
        /\ ~waitDetached(s, s.processes[i].procWrapper)}

\* the watch entries of a state that are work for the prologue timer: the
\* entry is tracked and in STATE_PROLOGUE
PrologueWork(s) ==
    {i \in 1..Len(s.prologueProcesses) :
        /\ getProcessIndex(s, s.prologueProcesses[i][1]) # None
        /\ s.wrappers[s.prologueProcesses[i][1]].state = STATE_PROLOGUE}

\* C26: at the end of a tick a timer is armed again only if work of its
\* kind is left: the detached-poll timer only if a non-redirected entry is
\* still tracked and not reaped, the prologue timer only if a watched entry
\* is still tracked in STATE_PROLOGUE; with an empty registry neither tick
\* arms its timer again.
C26_TimersRearm ==
    /\ waitTimer =>
           /\ onWaitTimer(St).waitTimer => DetachedWork(onWaitTimer(St)) # {}
           /\ processes = <<>> => ~onWaitTimer(St).waitTimer
    /\ prologueTimer =>
           /\ onPrologueTimer(St).prologueTimer
                  => PrologueWork(onPrologueTimer(St)) # {}
           /\ processes = <<>> => ~onPrologueTimer(St).prologueTimer

\* both timers are armed and the work of both is done: the one detached
\* child has exited, the one watched entry has left STATE_PROLOGUE; the
\* tick of either timer leaves it unarmed
C26_Witness ==
    /\ waitTimer
    /\ prologueTimer
    /\ Len(processes) = 2
    /\ Len(prologueProcesses) = 1
    /\ Cardinality(DetachedWork(St)) = 0
    /\ \E i \in 1..2 : /\ ~wrappers[processes[i].procWrapper].redirected
                       /\ os[processes[i].procWrapper] = "dead"
    /\ \E i \in 1..2 : wrappers[processes[i].procWrapper].state = STATE_RUNNING
    /\ ~onWaitTimer(St).waitTimer
    /\ Len(onWaitTimer(St).processes) = 1
    /\ ~onPrologueTimer(St).prologueTimer
    /\ onPrologueTimer(St).prologueProcesses = <<>>

\* the finished events of w that carry the code
NumCode(w, code) ==
    Cardinality({i \in Finished(w) : log[w][i][2] = code})

\* the runs of __kill by w; stop() makes one each time, and so does
\* __disconnected, and nothing else does
NumKills(w) ==
    Cardinality({i \in 1..Len(log[w]) : log[w][i][1] = "kill"})

\* the notices of one text on the console of w
NumNotices(w, text) ==
    IF wrappers[w].widget = None THEN 0
    ELSE Cardinality({i \in 1..Len(consoles[wrappers[w].widget].text) :
                         consoles[wrappers[w].widget].text[i][1] = text})

\* C27: KILLED and DISCONNECTED are two different negative numbers, and a
\* finished event carries KILLED only if stop() produced it, DISCONNECTED
\* only if a disconnect of the socket produced it: a wrapper has no more
\* finished(KILLED) events, and no more "Script killed" notices, than
\* stop() calls, and no more finished(DISCONNECTED) events, and no more
\* "Connection lost" notices, than runs of __disconnected; so the finished
\* event of an epilogue-exit-code message is neither, on the wire or on
\* the console.
C27_SentinelCodes ==
    /\ KILLED < 0 /\ DISCONNECTED < 0 /\ KILLED # DISCONNECTED
    /\ \A w \in 1..Len(wrappers) :
           /\ NumCode(w, KILLED) <= stopped[w]
           /\ NumNotices(w, "Script killed") <= stopped[w]
           /\ NumCode(w, DISCONNECTED) <= NumKills(w) - stopped[w]
           /\ NumNotices(w, "Connection lost") <= NumKills(w) - stopped[w]

\* C28: no two entries of the registry have the same procuuid.
C28_UniqueIds ==
    \A i, j \in 1..Len(processes) :
        i # j => wrappers[processes[i].procWrapper].procuuid
                     # wrappers[processes[j].procWrapper].procuuid

\* two launches are tracked, a redirected one that is running and a
\* detached one
C28_Witness ==
    /\ Len(processes) = 2
    /\ wrappers[processes[1].procWrapper].procuuid = 1
    /\ wrappers[processes[2].procWrapper].procuuid = 2
    /\ wrappers[1].state = STATE_RUNNING
    /\ ~wrappers[2].redirected

\* C29: whenever no handler is under way, a tracked redirected entry in
\* STATE_PROLOGUE has no socket, and one in STATE_RUNNING has a socket, and
\* that socket is connected.
C29_SocketMatchesState ==
    (frames = <<>> /\ ~blocked) =>
        \A i \in 1..Len(processes) :
            LET w == processes[i].procWrapper IN
            wrappers[w].redirected =>
                /\ wrappers[w].state \in {STATE_PROLOGUE, STATE_RUNNING}
                /\ wrappers[w].state = STATE_PROLOGUE
                       => wrappers[w].clientSocket = None
                /\ wrappers[w].state = STATE_RUNNING
                       => /\ wrappers[w].clientSocket # None
                          /\ sockets[wrappers[w].clientSocket].open

\* C30: a non-redirected wrapper never has a socket and is never in
\* STATE_RUNNING, whatever connections come in, a handshake that carries
\* its procuuid included.
C30_DetachedNoSocket ==
    \A w \in 1..Len(wrappers) :
        ~wrappers[w].redirected
            => /\ wrappers[w].clientSocket = None
               /\ wrappers[w].state # STATE_RUNNING

\* the procuuids of the tracked redirected entries in STATE_PROLOGUE
InPrologue ==
    {w \in 1..Len(wrappers) :
        /\ Tracked(w)
        /\ wrappers[w].redirected
        /\ wrappers[w].state = STATE_PROLOGUE}

\* C31: whenever no handler is under way, the watch list holds one entry
\* for each tracked redirected entry in STATE_PROLOGUE and no other entry:
\* the watch entry of an entry that has completed the handshake or has left
\* the registry is gone.
C31_WatchList ==
    (frames = <<>> /\ ~blocked) =>
        /\ {prologueProcesses[i][1] : i \in 1..Len(prologueProcesses)}
               = InPrologue
        /\ \A i, j \in 1..Len(prologueProcesses) :
               prologueProcesses[i][1] = prologueProcesses[j][1] => i = j

\* a watch entry is left for a procuuid the registry no longer holds, and
\* the prologue timer is not armed
Stranded ==
    /\ ~prologueTimer
    /\ \E i \in 1..Len(prologueProcesses) :
           ~Tracked(prologueProcesses[i][1])

\* the watch entries a prologue tick stops: tracked, in STATE_PROLOGUE,
\* launched more than HANDSHAKE_TIMEOUT ago
TimedOutIds ==
    {prologueProcesses[i][1] : i \in {j \in 1..Len(prologueProcesses) :
        /\ prologueProcesses[j][1] \in InPrologue
        /\ timedOut(prologueProcesses[j][2])}}

\* C32: a loop over the registry whose stop() calls remove entries while it
\* runs does what it should. The loop of killAll() calls stop() once on
\* every tracked redirected wrapper and on no other, and leaves the other
\* entries in the registry, in their order; a prologue tick calls stop()
\* once on every watched entry that has timed out and on no other, takes
\* those and no other out of the registry, and drops from the watch list
\* the entries that are no longer tracked in STATE_PROLOGUE and no other.
C32_LoopsSafe ==
    LET isDetached(item) == ~wrappers[item.procWrapper].redirected
        staysTracked(item) == item.procWrapper \notin TimedOutIds
        staysWatched(e) == e[1] \in InPrologue
        a == killAllLoop(St, Len(processes))
        t == onPrologueTimer(St)
    IN /\ a.processes = SelectSeq(processes, isDetached)
       /\ \A w \in 1..Len(wrappers) :
              a.stopped[w] = stopped[w]
                  + (IF Tracked(w) /\ wrappers[w].redirected THEN 1 ELSE 0)
       /\ t.processes = SelectSeq(processes, staysTracked)
       /\ t.prologueProcesses = SelectSeq(prologueProcesses, staysWatched)
       /\ \A w \in 1..Len(wrappers) :
              t.stopped[w] = stopped[w] + (IF w \in TimedOutIds THEN 1 ELSE 0)

\* two redirected entries are tracked and watched, the first has timed out
\* and the second has not: killAll() would stop both, the tick would stop
\* the first only
C32_Witness ==
    /\ Len(processes) = 2
    /\ InPrologue = {1, 2}
    /\ TimedOutIds = {1}
    /\ prologueTimer
    /\ killAllLoop(St, 2).processes = <<>>
    /\ Len(onPrologueTimer(St).processes) = 1
    /\ onPrologueTimer(St).processes[1].procWrapper = 2

\* state s differs from the current state in nothing that belongs to an
\* entry other than that of wrapper a: its state, socket, widget, process
\* and registration are as they are now
OthersUntouched(s, a) ==
    \A b \in 1..Len(wrappers) :
        b # a => /\ s.wrappers[b] = wrappers[b]
                 /\ s.os[b] = os[b]
                 /\ (getProcessIndex(s, b) # None) <=> Tracked(b)

\* the lines that are failures of the peer: not JSON, an unknown method, a
\* known method without its field
BadLines == AnyLines \ DataLines

\* C33: a failure of one entry stays with that entry. A bad line read by a
\* wrapper, the disconnect of its socket, and a stop() of it (a kill, a
\* timeout, with the OS killing the child or not) change nothing of any
\* other entry; and a tick of the prologue timer stops every watched entry
\* that has timed out, whatever happens to the others in the same tick.
C33_Isolated ==
    /\ \A k \in 1..Len(sockets) :
           LET r == sockets[k].readyRead
               d == sockets[k].disconnected
           IN /\ (sockets[k].open /\ r # None) =>
                     \A line \in BadLines :
                         OthersUntouched(
                             readPass([St EXCEPT !.sockets[k].inbuf =
                                          Append(@, line)], r, k), r)
              /\ (sockets[k].open /\ d # None) =>
                     OthersUntouched(
                         disconnected([St EXCEPT !.sockets[k].open = FALSE],
                                      d), d)
    /\ \A a \in 1..Len(wrappers) :
           (Tracked(a) /\ wrappers[a].redirected) =>
               OthersUntouched(stop(St, a), a)
    /\ ~blocked =>
           \A w \in TimedOutIds :
               onPrologueTimer(St).stopped[w] = stopped[w] + 1

\* the finished events of w that carry an exit code of the child
ExitFinished(w) == {i \in Finished(w) : log[w][i][2] >= 0}

\* C34: a wrapper that reads epilogue-exit-code with the code e sends
\* epilogue-exit and then emits finished(e), and it emits one such event
\* only, whatever is buffered behind the line (a second epilogue-exit-code
\* too).
C34_ExitOnce ==
    \A w \in 1..Len(wrappers) :
        /\ Cardinality(ExitFinished(w)) <= 1
        /\ \A i \in ExitFinished(w) :
               /\ i > 1
               /\ log[w][i - 1][1] = METHOD_EPILOGUE_EXIT

\* the events the lines should produce, one for each stdout, stderr or
\* stdin line, in the order of the lines
RECURSIVE EventsOf(_)
EventsOf(lines) ==
    IF lines = <<>> THEN <<>>
    ELSE LET l == Head(lines)
             rest == EventsOf(Tail(lines))
         IN IF l.method = METHOD_STDOUT THEN <<<<"stdout", l.val>>>> \o rest
            ELSE IF l.method = METHOD_STDERR
            THEN <<<<"stderr", l.val>>>> \o rest
            ELSE IF l.method = METHOD_STDIN
            THEN <<<<"input", l.val>>>> \o rest
            ELSE rest

\* the stdout, stderr and input events wrapper w has emitted, in order
ClientEvents(w) ==
    LET isClient(e) == e[1] \in {"stdout", "stderr", "input"}
    IN SelectSeq(log[w], isClient)

\* the lines received for wrapper w: what came after the handshake on the
\* connections whose readyRead is connected to w, up to connection k
RECURSIVE ReceivedFor(_, _)
ReceivedFor(w, k) ==
    IF k = 0 THEN <<>>
    ELSE ReceivedFor(w, k - 1)
             \o (IF sockets[k].readyRead = w
                 THEN Tail(sockets[k].readLog) \o sockets[k].inbuf
                 ELSE <<>>)

\* no read pass of wrapper w is under way
Idle(w) == \A i \in 1..Len(frames) : frames[i].w # w

\* C35: each stdout, stderr or stdin line a Running wrapper has received
\* produces one event, and the events come in the order of the lines, also
\* when a read pass runs inside the processEvents() of another; and once
\* the passes of a wrapper have returned, no line it has received is left
\* buffered.
C35_LinesInOrder ==
    \A w \in 1..Len(wrappers) :
        LET received == EventsOf(ReceivedFor(w, Len(sockets)))
            emitted == ClientEvents(w)
        IN /\ Len(emitted) <= Len(received)
           /\ emitted = SubSeq(received, 1, Len(emitted))
           /\ Idle(w) => emitted = received

\* the connections whose readyRead is connected to wrapper w and that hold
\* a line nobody is reading: the connection is open and no read pass of w
\* is under way
Unread(w) ==
    {k \in 1..Len(sockets) :
        /\ sockets[k].open
        /\ sockets[k].readyRead = w
        /\ Idle(w)
        /\ sockets[k].inbuf # <<>>}

\* C36: of the lines that came in the same read as the handshake, before
\* readyRead was connected, none is left behind: once the read passes of the
\* wrapper have returned, the connection it listens to holds no line (with
\* children that send nothing later, every buffered line is such a line).
C36_HandoffLossless ==
    ~blocked => \A w \in 1..Len(wrappers) : Unread(w) = {}

\* the tracked entries that are not redirected
DetachedTracked ==
    {w \in 1..Len(wrappers) : Tracked(w) /\ ~wrappers[w].redirected}

WatchedRunning ==
    {w \in 1..Len(wrappers) :
        /\ Tracked(w)
        /\ wrappers[w].state = STATE_RUNNING
        /\ \E i \in 1..Len(prologueProcesses) : prologueProcesses[i][1] = w}

\* the watch entries of wrapper w that are past the handshake timeout
Overdue(w) ==
    {i \in 1..Len(prologueProcesses) :
        prologueProcesses[i][1] = w /\ timedOut(prologueProcesses[i][2])}

\* C38: a tick of the prologue timer does not stop an entry in
\* STATE_RUNNING, however long ago it was launched: the entry stays
\* tracked, its wrapper, process and socket are as before, nothing is added
\* to its events or to its console, and its watch entry is gone after the
\* tick.
C38_RunningNotStopped ==
    LET t == onPrologueTimer(St) IN
    \A w \in WatchedRunning :
        LET item == processes[getProcessIndex(St, w)]
            k == wrappers[w].clientSocket
        IN /\ t.stopped[w] = stopped[w]
           /\ t.log[w] = log[w]
           /\ t.wrappers[w] = wrappers[w]
           /\ t.os[w] = os[w]
           /\ getProcessIndex(t, w) # None
           /\ k # None => t.sockets[k] = sockets[k]
           /\ item.widget # None
                  => t.consoles[item.widget] = consoles[item.widget]
           /\ ~t.blocked
                  => \A i \in 1..Len(t.prologueProcesses) :
                         t.prologueProcesses[i][1] # w

\* an entry in STATE_RUNNING is watched, its launch is longer ago than the
\* handshake timeout and the prologue timer is active: the tick would drop
\* the watch entry and emit nothing
C38_Witness ==
    /\ prologueTimer
    /\ \E w \in WatchedRunning :
           /\ Overdue(w) # {}
           /\ onPrologueTimer(St).prologueProcesses = <<>>
           /\ NumFinished(w) = 0

\* the sockets wrapper w has been attached to: setSocket ends by sending
\* prologue-continue on the socket (113)
Attaches(w) ==
    {k \in 1..Len(sockets) :
        \E i \in 1..Len(log[w]) : log[w][i] = <<METHOD_PROLOGUE_CONTINUE, k>>}

\* w has emitted finished from stop() or for an epilogue-exit-code message
FinishedByStopOrExit(w) ==
    \E i \in Finished(w) : log[w][i][2] # DISCONNECTED

\* the runs of __disconnected by w: each makes one run of __kill, and so
\* does each stop(), and nothing else does
Disconnects(w) == NumKills(w) - stopped[w]

\* C39: for a wrapper that has been attached once at most, and that has
\* emitted finished from stop() or for an epilogue-exit-code message, the
\* slot of the socket's disconnected signal does not run from then on,
\* whenever and by whomever the socket is closed, and the wrapper emits no
\* finished(DISCONNECTED).
C39_NoLateDisconnect ==
    [][\A w \in 1..Len(wrappers) :
          (FinishedByStopOrExit(w) /\ Cardinality(Attaches(w)') <= 1)
          => /\ Disconnects(w)' = Disconnects(w)
             /\ NumCode(w, DISCONNECTED)' = NumCode(w, DISCONNECTED)]_vars


\* two wrappers, each attached once: one has emitted finished(KILLED) from
\* stop(), the other finished(0) for an epilogue-exit-code; the socket of
\* each has been closed since, and neither has emitted finished(DISCONNECTED)
C39_Witness ==
    \E w, v \in 1..Len(wrappers) :
        /\ Cardinality(Attaches(w)) = 1 /\ Cardinality(Attaches(v)) = 1
        /\ NumKilled(w) = 1 /\ NumCode(v, 0) = 1
        /\ NumFinished(w) = 1 /\ NumFinished(v) = 1
        /\ \A k \in Attaches(w) \cup Attaches(v) : ~sockets[k].open

\* C40: whenever no handler is under way, the wait timer is active if an
\* entry that is not redirected is tracked, and the prologue timer is active
\* if the watch list holds an entry.
C40_TimersArmed ==
    (frames = <<>> /\ ~blocked) =>
        /\ DetachedTracked # {} => waitTimer
        /\ prologueProcesses # <<>> => prologueTimer

====
